---------------------------- MODULE Spec2Model ----------------------------
(***************************************************************************)
(* Model of url_redirect_visualizer_full.py: the two heuristic scorers     *)
(* check_url and check_email, and the three button handlers of             *)
(* SuspiciousChecker (analyze_input, show_history, export_csv) with the    *)
(* state they read and write: self.results, the results table, the three   *)
(* dashboard cards and the history file.                                   *)
(*                                                                         *)
(* A Python str is a sequence of one-character strings, so that the        *)
(* regular expressions and urlparse are computed character by character.   *)
(* The three emoji of the status texts are single elements named by their  *)
(* code point.                                                             *)
(***************************************************************************)
EXTENDS Integers, Sequences, FiniteSets, TLC

VARIABLES
    results,        \* self.results: the records of the current run
    results_table,  \* self.results_table: the rows on display
    cards,          \* end values of safe_card, risk_card, suspicious_card
    history_file,   \* the file self.history_file ("history.csv")
    err,            \* the exception the last handler let escape, or "none"
    last,           \* the last handler call: its name, input, I/O outcomes
                    \* and, for export_csv, the rows it wrote
    analysed,       \* the entries of this session's latest non-empty analysis
    arg,            \* the string handed to a scorer called on its own
    ret             \* what that scorer returned

gui  == <<results, results_table, cards, history_file, err, last, analysed>>
vars == <<results, results_table, cards, history_file, err, last, analysed,
          arg, ret>>

----------------------------------------------------------------------------
(* Characters and the string primitives the code uses.                     *)

LowerAlpha ==
    <<"a", "b", "c", "d", "e", "f", "g", "h", "i", "j", "k", "l", "m",
      "n", "o", "p", "q", "r", "s", "t", "u", "v", "w", "x", "y", "z">>

UpperAlpha ==
    <<"A", "B", "C", "D", "E", "F", "G", "H", "I", "J", "K", "L", "M",
      "N", "O", "P", "Q", "R", "S", "T", "U", "V", "W", "X", "Y", "Z">>

Range(f) == {f[i] : i \in DOMAIN f}

Alpha == Range(LowerAlpha) \cup Range(UpperAlpha)

Digit == {"0", "1", "2", "3", "4", "5", "6", "7", "8", "9"}

\* \w of a Python 3 str pattern, on the ASCII characters used here.
WordChar == Alpha \cup Digit \cup {"_"}

\* urllib.parse.scheme_chars
scheme_chars == Alpha \cup Digit \cup {"+", "-", "."}

\* str.lower() of one character (re.IGNORECASE compares case-folded text).
LowerChar(c) ==
    IF c \in Range(UpperAlpha)
    THEN LowerAlpha[CHOOSE i \in 1..26 : UpperAlpha[i] = c]
    ELSE c

Lower(s) == [i \in 1..Len(s) |-> LowerChar(s[i])]

Min(a, b) == IF a <= b THEN a ELSE b

\* The text t occurs in s starting at index i (1-based).
MatchAt(s, t, i) ==
    /\ i >= 1
    /\ i + Len(t) - 1 <= Len(s)
    /\ \A k \in 1..Len(t) : s[i + k - 1] = t[k]

\* t in s
Contains(s, t) == \E i \in 1..(Len(s) + 1) : MatchAt(s, t, i)

\* s.endswith(t)
EndsWith(s, t) == MatchAt(s, t, Len(s) - Len(t) + 1)

\* s.find(c): the first index of character c at or after index from, 0 if none.
Find(s, c, from) ==
    IF \E i \in from..Len(s) : s[i] = c
    THEN CHOOSE i \in from..Len(s) :
             s[i] = c /\ \A j \in from..(i - 1) : s[j] # c
    ELSE 0

\* The index just after the longest run of characters of cls starting at i.
RECURSIVE RunEnd(_, _, _)
RunEnd(s, cls, i) ==
    IF i <= Len(s) /\ s[i] \in cls THEN RunEnd(s, cls, i + 1) ELSE i

IsSpace(c) == c = " "

\* str.strip(): leading and trailing whitespace removed.
RECURSIVE LStrip(_)
LStrip(s) == IF s # <<>> /\ IsSpace(Head(s)) THEN LStrip(Tail(s)) ELSE s

RECURSIVE RStrip(_)
RStrip(s) ==
    IF s # <<>> /\ IsSpace(s[Len(s)])
    THEN RStrip(SubSeq(s, 1, Len(s) - 1))
    ELSE s

Strip(s) == RStrip(LStrip(s))

----------------------------------------------------------------------------
(* urlparse, as far as check_url reads it: the scheme, the netloc, and     *)
(* whether the call raises ValueError.  The entries used here never hold   *)
(* both "[" and "]", the one case urlsplit treats differently from one     *)
(* Python release to the next.                                             *)

\* The index of the ":" that ends a scheme at the start of u, 0 if u has no
\* scheme: a letter, then scheme_chars, up to the first ":".
SchemeEnd(u) ==
    IF /\ Find(u, ":", 1) > 1
       /\ u[1] \in Alpha
       /\ \A k \in 1..(Find(u, ":", 1) - 1) : u[k] \in scheme_chars
    THEN Find(u, ":", 1)
    ELSE 0

\* _splitnetloc(rest, 2): the text between a leading "//" and the first of
\* "/", "?", "#"; empty when rest does not start with "//".
SplitNetloc(rest) ==
    IF ~MatchAt(rest, <<"/", "/">>, 1) THEN <<>>
    ELSE IF \E i \in 3..Len(rest) : rest[i] \in {"/", "?", "#"}
    THEN SubSeq(rest, 3,
                (CHOOSE i \in 3..Len(rest) :
                    /\ rest[i] \in {"/", "?", "#"}
                    /\ \A j \in 3..(i - 1) : rest[j] \notin {"/", "?", "#"}) - 1)
    ELSE SubSeq(rest, 3, Len(rest))

\* raise ValueError("Invalid IPv6 URL")
BadBrackets(netloc) ==
    \/ "[" \in Range(netloc) /\ "]" \notin Range(netloc)
    \/ "]" \in Range(netloc) /\ "[" \notin Range(netloc)

Parsed(u, colon) ==
    [scheme |-> Lower(SubSeq(u, 1, colon - 1)),
     netloc |-> SplitNetloc(SubSeq(u, colon + 1, Len(u))),
     raised |-> BadBrackets(SplitNetloc(SubSeq(u, colon + 1, Len(u))))]

urlparse(url) == Parsed(LStrip(url), SchemeEnd(LStrip(url)))

----------------------------------------------------------------------------
(* The regular expressions of check_url and check_email.                   *)

\* http[s]?:// matched at the start: the index just after it, 0 if no match.
HttpPrefixEnd(s) ==
    IF MatchAt(s, <<"h", "t", "t", "p", ":", "/", "/">>, 1) THEN 8
    ELSE IF MatchAt(s, <<"h", "t", "t", "p", "s", ":", "/", "/">>, 1) THEN 9
    ELSE 0

\* \d+\. matched at index i: the index just after it, 0 if no match.
DigitsDot(s, i) ==
    IF /\ i > 0
       /\ RunEnd(s, Digit, i) > i
       /\ MatchAt(s, <<".">>, RunEnd(s, Digit, i))
    THEN RunEnd(s, Digit, i) + 1
    ELSE 0

\* \d+\.\d+\.\d+\.\d+ matched at index i
DottedQuadAt(s, i) ==
    /\ DigitsDot(s, DigitsDot(s, DigitsDot(s, i))) > 0
    /\ RunEnd(s, Digit, DigitsDot(s, DigitsDot(s, DigitsDot(s, i))))
           > DigitsDot(s, DigitsDot(s, DigitsDot(s, i)))

\* re.match(r'http[s]?://\d+\.\d+\.\d+\.\d+', url)
MatchesIP(url) == HttpPrefixEnd(url) > 0 /\ DottedQuadAt(url, HttpPrefixEnd(url))

UrlKeywords ==
    { <<"f", "r", "e", "e">>,
      <<"l", "o", "g", "i", "n">>,
      <<"v", "e", "r", "i", "f", "y">>,
      <<"u", "p", "d", "a", "t", "e">>,
      <<"s", "e", "c", "u", "r", "e">>,
      <<"b", "a", "n", "k">>,
      <<"p", "a", "y", "p", "a", "l">>,
      <<"c", "o", "n", "f", "i", "r", "m">>,
      <<"a", "c", "c", "o", "u", "n", "t">> }

\* re.search(r'(w1|w2|...)', s, re.IGNORECASE) for lower-case words
SearchIgnoreCase(s, words) == \E w \in words : Contains(Lower(s), w)

Shorteners ==
    { <<"b", "i", "t", ".", "l", "y">>,
      <<"t", "i", "n", "y", "u", "r", "l", ".", "c", "o", "m">>,
      <<"g", "o", "o", ".", "g", "l">>,
      <<"t", ".", "c", "o">> }

\* re.match(r'http[s]?://(bit\.ly|tinyurl\.com|goo\.gl|t\.co)', url)
MatchesShortener(url) ==
    /\ HttpPrefixEnd(url) > 0
    /\ \E h \in Shorteners : MatchAt(url, h, HttpPrefixEnd(url))

\* re.search(r'[@]{1,}', url)
HasAt(url) == "@" \in Range(url)

\* re.search(r'[\?\=\&]{3,}', url)
HasSymbolRun(url) ==
    \E i \in 1..Len(url) : RunEnd(url, {"?", "=", "&"}, i) >= i + 3

LookAlikes ==
    { <<"g", "o", "o", "g", "1", "e">>,
      <<"f", "a", "c", "e", "b", "o", "0", "k">>,
      <<"p", "a", "y", "p", "a", "1">> }

EmailKeywords ==
    { <<"a", "d", "m", "i", "n">>,
      <<"s", "u", "p", "p", "o", "r", "t">>,
      <<"v", "e", "r", "i", "f", "y">>,
      <<"n", "o", "r", "e", "p", "l", "y">>,
      <<"s", "e", "c", "u", "r", "i", "t", "y">>,
      <<"a", "l", "e", "r", "t">> }

SuspiciousTlds ==
    { <<".", "x", "y", "z">>,
      <<".", "c", "l", "u", "b">>,
      <<".", "t", "o", "p">>,
      <<".", "o", "n", "l", "i", "n", "e">> }

\* re.match(r'^[\w\.-]+@[\w\.-]+\.\w+$', email): the local part runs to the
\* first "@"; some "." after it splits the rest into [\w\.-]+ and \w+.
EmailChar == WordChar \cup {".", "-"}

DomainAt(email, at) ==
    \E dot \in (at + 2)..(Len(email) - 1) :
        /\ email[dot] = "."
        /\ \A k \in (at + 1)..(dot - 1) : email[k] \in EmailChar
        /\ \A k \in (dot + 1)..Len(email) : email[k] \in WordChar

MatchesEmailPattern(email) ==
    /\ RunEnd(email, EmailChar, 1) > 1
    /\ MatchAt(email, <<"@">>, RunEnd(email, EmailChar, 1))
    /\ DomainAt(email, RunEnd(email, EmailChar, 1))

----------------------------------------------------------------------------
(* The scorers.  A scorer state is the pair (score, issues) the function   *)
(* builds up statement by statement.                                       *)

MaxScore == 10

NoIssues == "No obvious issues found"

Start == [score |-> 0, issues |-> <<>>]

\* issues.append(label); score += points
Hit(acc, points, label) ==
    [score |-> acc.score + points, issues |-> Append(acc.issues, label)]

\* if cond: issues.append(label); score += points
When(cond, acc, points, label) == IF cond THEN Hit(acc, points, label) ELSE acc

\* Variant of Checked: a parse failure reported under the label of a
\* missing scheme or host.
Checked_OneLabel(parsed) ==
    IF parsed.raised \/ parsed.scheme = <<>> \/ parsed.netloc = <<>>
    THEN Hit(Start, 5, "Invalid URL format")
    ELSE Start

\* The try/except around urlparse in check_url: "Invalid URL format" when
\* the scheme or the netloc is empty, "Malformed URL" when urlparse raised.
Checked(parsed) ==
    IF parsed.raised
    THEN Hit(Start, 5, "Malformed URL")
    ELSE IF parsed.scheme = <<>> \/ parsed.netloc = <<>>
         THEN Hit(Start, 5, "Invalid URL format")
         ELSE Start

FormatRule(url) == Checked(urlparse(url))

\* Variant of Clamp: the min left out.
Clamp_Off(score) == score

\* score = min(score, 10)
Clamp(score) == Min(score, MaxScore)

\* if score == 0: issues.append("No obvious issues found")
Sealed(score, issues) ==
    [score  |-> score,
     issues |-> IF score = 0 THEN Append(issues, NoIssues) ELSE issues]

\* score = min(score, 10); if score == 0: ...; return score, issues
Finish(acc) == Sealed(Clamp(acc.score), acc.issues)

\* Variant of check_url: the shortener rule applied before the keyword rule.
check_url_ShortenerFirst(url) ==
    Finish(
      When(SearchIgnoreCase(url, LookAlikes),
        When(HasSymbolRun(url),
          When(HasAt(url),
            When(SearchIgnoreCase(url, UrlKeywords),
              When(MatchesShortener(url),
                When(MatchesIP(url),
                  FormatRule(url),
                  3, "Contains IP address"),
                2, "Shortened URL"),
              2, "Suspicious keywords"),
            2, "Contains @ symbol"),
          1, "Excessive symbols"),
        3, "Possible phishing domain"))

\* The seven rules of check_url, in the order the function applies them
\* (the innermost is applied first).
check_url(url) ==
    Finish(
      When(SearchIgnoreCase(url, LookAlikes),
        When(HasSymbolRun(url),
          When(HasAt(url),
            When(MatchesShortener(url),
              When(SearchIgnoreCase(url, UrlKeywords),
                When(MatchesIP(url),
                  FormatRule(url),
                  3, "Contains IP address"),
                2, "Suspicious keywords"),
              2, "Shortened URL"),
            2, "Contains @ symbol"),
          1, "Excessive symbols"),
        3, "Possible phishing domain"))

\* The three rules of check_email, the innermost applied first.
check_email(email) ==
    Finish(
      When(\E t \in SuspiciousTlds : EndsWith(email, t),
        When(SearchIgnoreCase(email, EmailKeywords),
          When(~MatchesEmailPattern(email),
            Start,
            5, "Invalid email format"),
          3, "Suspicious keywords"),
        2, "Suspicious TLD"))

----------------------------------------------------------------------------
(* Values of the application state.                                        *)

MaxHistory == 4    \* rows the history file may grow to

SUSPICIOUS ==
    <<"S", "U", "S", "P", "I", "C", "I", "O", "U", "S", " ", "U+274C">>

POTENTIAL ==
    <<"P", "O", "T", "E", "N", "T", "I", "A", "L", " ", "U+26A0", "U+FE0F">>

SAFE == <<"S", "A", "F", "E", " ", "U+2705">>

\* A csv file: absent, unreadable (read_csv raises on it), or rows of text.
NoFile == [state |-> "absent", rows |-> <<>>]

Unreadable == [state |-> "corrupt", rows |-> <<>>]

CsvFile(rows) == [state |-> "ok", rows |-> rows]

\* A handler call: op, the handler; text, the lines of the input box it
\* read; read and write, how its read_csv and to_csv went ("none": not
\* called, "ok", "failed": raised); out, the rows export_csv wrote.
NoCall ==
    [op |-> "none", text |-> <<>>, read |-> "none", write |-> "none",
     out |-> <<>>]

Call(op, text, read, write, out) ==
    [op |-> op, text |-> text, read |-> read, write |-> write, out |-> out]

DigitText == <<"0", "1", "2", "3", "4", "5", "6", "7", "8", "9">>

\* str(n) of a non-negative int
RECURSIVE Str(_)
Str(n) ==
    IF n < 10 THEN <<DigitText[n + 1]>>
    ELSE Str(n \div 10) \o <<DigitText[(n % 10) + 1]>>

\* The int a run of decimal digits denotes.
RECURSIVE ParseInt(_)
ParseInt(t) ==
    IF t = <<>> THEN 0
    ELSE 10 * ParseInt(SubSeq(t, 1, Len(t) - 1))
         + ((CHOOSE i \in 1..10 : DigitText[i] = t[Len(t)]) - 1)

\* ", ".join(issues): the labels with the separator between them.
RECURSIVE JoinIssues(_)
JoinIssues(labels) ==
    IF Len(labels) <= 1 THEN labels
    ELSE <<labels[1], ", ">> \o JoinIssues(Tail(labels))

----------------------------------------------------------------------------
(* pandas: DataFrame(self.results), to_csv and read_csv.  A data frame is  *)
(* a sequence of rows; its Input cell is a str or the float NaN.  A file   *)
(* row holds the four fields as text (the quoting to_csv puts around a     *)
(* field with a comma is taken off again by read_csv and is not shown).    *)

\* The texts read_csv turns into NaN by default, in every pandas release.
NaValues ==
    { <<>>,
      <<"#", "N", "/", "A">>,
      <<"#", "N", "/", "A", " ", "N", "/", "A">>,
      <<"#", "N", "A">>,
      <<"-", "1", ".", "#", "I", "N", "D">>,
      <<"-", "1", ".", "#", "Q", "N", "A", "N">>,
      <<"-", "N", "a", "N">>,
      <<"-", "n", "a", "n">>,
      <<"1", ".", "#", "I", "N", "D">>,
      <<"1", ".", "#", "Q", "N", "A", "N">>,
      <<"N", "/", "A">>,
      <<"N", "A">>,
      <<"N", "U", "L", "L">>,
      <<"N", "a", "N">>,
      <<"n", "/", "a">>,
      <<"n", "a", "n">>,
      <<"n", "u", "l", "l">> }

StrCell(text) == [nan |-> FALSE, str |-> text]

NaN == [nan |-> TRUE, str |-> <<>>]

\* pd.DataFrame(self.results)
DataFrame(records) ==
    [i \in 1..Len(records) |->
        [Input  |-> StrCell(records[i].Input),
         Issues |-> records[i].Issues,
         Score  |-> records[i].Score,
         Status |-> records[i].Status]]

\* df.to_csv(path, index=False): NaN is written as the empty field.
to_csv(df) ==
    [i \in 1..Len(df) |->
        [Input  |-> IF df[i].Input.nan THEN <<>> ELSE df[i].Input.str,
         Issues |-> df[i].Issues,
         Score  |-> Str(df[i].Score),
         Status |-> df[i].Status]]

\* pd.read_csv(path) of a readable file: a field that is one of NaValues is
\* read as NaN.  No entry used here is all digits, so the other Input cells
\* stay text; the Issues and Status texts are never in NaValues.
read_csv(rows) ==
    [i \in 1..Len(rows) |->
        [Input  |-> IF rows[i].Input \in NaValues THEN NaN
                    ELSE StrCell(rows[i].Input),
         Issues |-> rows[i].Issues,
         Score  |-> ParseInt(rows[i].Score),
         Status |-> rows[i].Status]]

----------------------------------------------------------------------------
(* analyze_input                                                           *)

\* What the user may type on one line of the input box.
Typed ==
    { <<"h", "t", "t", "p", ":", "/", "/", "a", ".", "c", "o">>,
      <<" ", "N", "A", " ">>,
      <<"s", "u", "p", "p", "o", "r", "t", "@", "a", ".", "c", "o">>,
      <<" ">> }

\* The content of the input box: one line or two.
Texts == {<<a>> : a \in Typed} \cup {<<a, b>> : a \in Typed, b \in Typed}

\* lines = [line.strip() for line in text.split("\n") if line.strip()]
RECURSIVE Lines(_)
Lines(text) ==
    IF text = <<>> THEN <<>>
    ELSE IF Strip(Head(text)) = <<>> THEN Lines(Tail(text))
    ELSE <<Strip(Head(text))>> \o Lines(Tail(text))

\* Variant of Route: every entry handed to check_url.
Route_AlwaysUrl(entry) == check_url(entry)

\* if "@" in entry: check_email(entry) else: check_url(entry)
Route(entry) ==
    IF "@" \in Range(entry) THEN check_email(entry) ELSE check_url(entry)

\* Variant of Classify: SUSPICIOUS above 5 only.
Classify_Above5(score) ==
    IF score > 5 THEN SUSPICIOUS
    ELSE IF score > 0 THEN POTENTIAL
    ELSE SAFE

\* if score >= 5: SUSPICIOUS, elif score > 0: POTENTIAL, else: SAFE
Classify(score) ==
    IF score >= 5 THEN SUSPICIOUS
    ELSE IF score > 0 THEN POTENTIAL
    ELSE SAFE

\* The dict appended to self.results for one entry.
Record(entry) ==
    LET out == Route(entry)
    IN  [Input  |-> entry,
         Issues |-> JoinIssues(out.issues),
         Score  |-> out.score,
         Status |-> Classify(out.score)]

Entries == {Strip(t) : t \in Typed} \ {<<>>}

\* The record of every entry that can be typed, computed once.
RecordOf == [e \in Entries |-> Record(e)]

Records(lines) == [i \in 1..Len(lines) |-> RecordOf[lines[i]]]

\* The four QTableWidgetItem texts of a row of the table.
Cells(input, issues, score, status) ==
    [set |-> TRUE, Input |-> input, Issues |-> issues, Score |-> score,
     Status |-> status]

\* A row insertRow added and no setItem filled.
EmptyRow ==
    [set |-> FALSE, Input |-> <<>>, Issues |-> <<>>, Score |-> <<>>,
     Status |-> <<>>]

\* Variant of Rendered: the rows on display are not removed first.
Rendered_NoClear(shown, records) ==
    shown \o [i \in 1..Len(records) |->
        Cells(records[i].Input, records[i].Issues, Str(records[i].Score),
              records[i].Status)]

\* The rows of the table after analyze_input, given the rows it showed
\* before: setRowCount(0) removes those, then one row per record is added.
Rendered(shown, records) ==
    [i \in 1..Len(records) |->
        Cells(records[i].Input, records[i].Issues, Str(records[i].Score),
              records[i].Status)]

Count(seq, status) == Cardinality({i \in 1..Len(seq) : seq[i].Status = status})

\* safe_count, risk_count, suspicious_count after the loop of analyze_input
Counted(records) ==
    [safe       |-> Count(records, SAFE),
     risk       |-> Count(records, POTENTIAL),
     suspicious |-> Count(records, SUSPICIOUS)]

\* The data frame analyze_input writes: the rows read from the history file
\* followed by the run's, or the run's alone when there is no file or
\* read_csv raised.
Merged(file, records) ==
    IF file.state = "ok"
    THEN read_csv(file.rows) \o DataFrame(records)
    ELSE DataFrame(records)

\* How the read inside the try went.
ReadOutcome(file) ==
    IF file.state = "absent" THEN "none"
    ELSE IF file.state = "ok" THEN "ok"
    ELSE "failed"

\* What a to_csv that raised OSError may leave at the path: the file as it
\* was (the open failed) or a truncated, unreadable one.
AfterFailedWrite(file) == {file, Unreadable}

\* text: the lines of the input box; wrote: df.to_csv did not raise (a run
\* that returns early writes nothing, so wrote is fixed there).  The history
\* file is kept to MaxHistory rows.
analyze_input(text, wrote) ==
    LET lines   == Lines(text)
        records == Records(lines)
        df      == Merged(history_file, records)
    IN  IF lines = <<>>
        THEN /\ last' = Call("analyze", text, "none", "none", <<>>)
             /\ err' = "none"
             /\ wrote
             /\ UNCHANGED <<results, results_table, cards, history_file,
                            analysed>>
        ELSE /\ Len(df) <= MaxHistory
             /\ results' = records
             /\ results_table' = Rendered(results_table, records)
             /\ cards' = Counted(records)
             /\ analysed' = lines
             /\ last' = Call("analyze", text, ReadOutcome(history_file),
                             IF wrote THEN "ok" ELSE "failed", <<>>)
             /\ IF wrote
                THEN /\ history_file' = CsvFile(to_csv(df))
                     /\ err' = "none"
                ELSE /\ history_file' \in AfterFailedWrite(history_file)
                     /\ err' = "OSError"

----------------------------------------------------------------------------
(* show_history                                                            *)

\* The bucket show_history counts a Status text under.
Bucket(status) ==
    IF Contains(status, <<"U+274C">>) THEN "suspicious"
    ELSE IF Contains(status, <<"U+26A0">>) THEN "risk"
    ELSE "safe"

\* The index of the first row whose Input is NaN, for which
\* QTableWidgetItem(val) raises TypeError; 0 if there is none.
FirstNaN(df) ==
    IF \E i \in 1..Len(df) : df[i].Input.nan
    THEN CHOOSE i \in 1..Len(df) :
             df[i].Input.nan /\ \A j \in 1..(i - 1) : ~df[j].Input.nan
    ELSE 0

\* The table rows of the first n rows of the data frame.
Shown(df, n) ==
    [i \in 1..n |->
        Cells(df[i].Input.str, df[i].Issues, Str(df[i].Score), df[i].Status)]

Tally(df, bucket) ==
    Cardinality({i \in 1..Len(df) : Bucket(df[i].Status) = bucket})

show_history ==
    /\ UNCHANGED <<results, history_file, analysed>>
    /\ IF history_file.state = "absent"
       THEN /\ last' = Call("history", <<>>, "none", "none", <<>>)
            /\ err' = "none"
            /\ UNCHANGED <<results_table, cards>>
       ELSE IF history_file.state = "corrupt"
       THEN /\ last' = Call("history", <<>>, "failed", "none", <<>>)
            /\ err' = "ParserError"
            /\ UNCHANGED <<results_table, cards>>
       ELSE LET df  == read_csv(history_file.rows)
                bad == FirstNaN(df)
            IN  /\ last' = Call("history", <<>>, "ok", "none", <<>>)
                /\ IF bad > 0
                   THEN /\ results_table' = Append(Shown(df, bad - 1), EmptyRow)
                        /\ err' = "TypeError"
                        /\ UNCHANGED cards
                   ELSE /\ results_table' = Shown(df, Len(df))
                        /\ err' = "none"
                        /\ cards' = [safe       |-> Tally(df, "safe"),
                                     risk       |-> Tally(df, "risk"),
                                     suspicious |-> Tally(df, "suspicious")]

----------------------------------------------------------------------------
(* export_csv                                                              *)

\* Variant of Exported: the rows on display are written.
Exported_Table(shown, records) ==
    [i \in 1..Len(shown) |->
        [Input  |-> shown[i].Input, Issues |-> shown[i].Issues,
         Score  |-> shown[i].Score, Status |-> shown[i].Status]]

\* The rows export_csv writes, given the rows on display and self.results:
\* pd.DataFrame(self.results).to_csv(path, index=False)
Exported(shown, records) == to_csv(DataFrame(records))

\* chosen: the file dialog returned a path; wrote: to_csv did not raise.
\* Nothing reads the exported file back: the rows written are kept in the
\* call's record.
export_csv(chosen, wrote) ==
    /\ UNCHANGED <<results, results_table, cards, history_file, analysed>>
    /\ IF results = <<>> \/ ~chosen
       THEN /\ last' = Call("export", <<>>, "none", "none", <<>>)
            /\ err' = "none"
            /\ wrote
       ELSE IF wrote
       THEN /\ last' = Call("export", <<>>, "none", "ok",
                            Exported(results_table, results))
            /\ err' = "none"
       ELSE /\ last' = Call("export", <<>>, "none", "failed", <<>>)
            /\ err' = "OSError"

----------------------------------------------------------------------------
(* The application.                                                        *)

\* SuspiciousChecker.__init__ and initUI
Constructed ==
    /\ results = <<>>
    /\ results_table = <<>>
    /\ cards = [safe |-> 0, risk |-> 0, suspicious |-> 0]
    /\ err = "none"
    /\ last = NoCall
    /\ analysed = <<>>

\* The program is closed and started again; the files stay.
Restart ==
    /\ last.op # "none"
    /\ results' = <<>>
    /\ results_table' = <<>>
    /\ cards' = [safe |-> 0, risk |-> 0, suspicious |-> 0]
    /\ err' = "none"
    /\ last' = NoCall
    /\ analysed' = <<>>
    /\ UNCHANGED history_file

NotCalled == [fn |-> "none", score |-> 0, issues |-> <<>>]

Init ==
    /\ Constructed
    /\ history_file \in {NoFile, Unreadable}
    /\ arg = <<>>
    /\ ret = NotCalled

ClickAnalyze ==
    /\ \E text \in Texts, wrote \in BOOLEAN : analyze_input(text, wrote)
    /\ UNCHANGED <<arg, ret>>

ClickHistory == show_history /\ UNCHANGED <<arg, ret>>

ClickExport ==
    /\ \E chosen \in BOOLEAN, wrote \in BOOLEAN : export_csv(chosen, wrote)
    /\ UNCHANGED <<arg, ret>>

Reopen == Restart /\ UNCHANGED <<arg, ret>>

Next == ClickAnalyze \/ ClickHistory \/ ClickExport \/ Reopen

Spec == Init /\ [][Next]_vars

----------------------------------------------------------------------------
(* The scorers on their own: a string is drawn from Strings and handed to  *)
(* one of the two scorers.                                                 *)

Schemes ==
    { <<>>,
      <<"h", "t", "t", "p", ":", "/", "/">>,
      <<"h", "t", "t", "p", "s", ":", "/", "/">>,
      <<"/", "/">> }

Hosts ==
    { <<"a", ".", "c", "o">>,
      <<"1", ".", "2", ".", "3", ".", "4">>,
      <<"1", ".", "2", ".", "3">>,
      <<"b", "i", "t", ".", "l", "y">>,
      <<"g", "o", "o", "g", "1", "e", ".", "c", "o">>,
      <<"P", "a", "y", "P", "a", "l", ".", "c", "o">>,
      <<"a", ".", "c", "o", "[">>,
      <<"u", "@", "a", ".", "c", "o">>,
      <<"a", "d", "m", "i", "n", "@", "a", ".", "c", "o">> }

Tails ==
    { <<>>,
      <<"/", "x">>,
      <<"/", "l", "o", "g", "i", "n">>,
      <<"?", "=", "&">>,
      <<"?", "a", "=", "1">>,
      <<".", "x", "y", "z">>,
      <<"/", "l", "o", "g", "i", "n", "@", "p", "a", "y", "p", "a", "1",
        "?", "=", "&">> }

Strings == {s \o h \o t : s \in Schemes, h \in Hosts, t \in Tails}

Returned(fn, out) == [fn |-> fn, score |-> out.score, issues |-> out.issues]

ScoreInit ==
    /\ Constructed
    /\ history_file = NoFile
    /\ arg \in Strings
    /\ ret = NotCalled

CallCheckUrl ==
    /\ ret.fn = "none"
    /\ ret' = Returned("check_url", check_url(arg))
    /\ UNCHANGED <<gui, arg>>

CallCheckEmail ==
    /\ ret.fn = "none"
    /\ ret' = Returned("check_email", check_email(arg))
    /\ UNCHANGED <<gui, arg>>

ScoreNext == CallCheckUrl \/ CallCheckEmail

SpecScore == ScoreInit /\ [][ScoreNext]_vars

----------------------------------------------------------------------------
(* Properties of the scorers, checked under SpecScore.                     *)

InIssues(label) == label \in Range(ret.issues)

\* C4: for every input to check_url and check_email, whatever rules fire,
\* the returned score is an integer from 0 to 10.
C4_ScoreInRange == ret.fn # "none" => ret.score \in 0..MaxScore

\* check_url returned for a URL on which the parser raised and the IP,
\* keyword, @, symbol and look-alike rules fired: 5+3+2+2+1+3 points.
C4_Witness ==
    /\ ret.fn = "check_url"
    /\ ret.score = MaxScore
    /\ InIssues("Malformed URL")
    /\ InIssues("Suspicious keywords")
    /\ InIssues("Contains @ symbol")
    /\ InIssues("Excessive symbols")
    /\ InIssues("Possible phishing domain")

\* The format rule of check_url fired: urlparse raised, or the scheme or
\* the host is missing.
FormatFired(url) ==
    \/ urlparse(url).raised
    \/ urlparse(url).scheme = <<>>
    \/ urlparse(url).netloc = <<>>

\* C5 as stated: a parse failure yields the same +5 and the same label
\* "Invalid URL format" as a missing scheme or host, never a distinct label.
C5_Original ==
    (ret.fn = "check_url" /\ FormatFired(arg)) =>
        /\ ret.score >= 5
        /\ Head(ret.issues) = "Invalid URL format"

\* C5 amended: the format rule adds 5 points and one label, which comes
\* first: "Malformed URL" when the parser raised, "Invalid URL format" when
\* the scheme or the host is missing; otherwise neither label appears.
C5_FormatLabels ==
    ret.fn = "check_url" =>
        IF urlparse(arg).raised
        THEN /\ ret.score >= 5
             /\ Head(ret.issues) = "Malformed URL"
             /\ ~InIssues("Invalid URL format")
        ELSE IF FormatFired(arg)
        THEN /\ ret.score >= 5
             /\ Head(ret.issues) = "Invalid URL format"
             /\ ~InIssues("Malformed URL")
        ELSE /\ ~InIssues("Invalid URL format")
             /\ ~InIssues("Malformed URL")

\* check_url returned for a URL on which urlparse raised.
C5_Witness == ret.fn = "check_url" /\ urlparse(arg).raised

\* The reference scorer: the rules that fire, as a set; their points summed
\* and capped; their labels in rule order.
UrlFires(k, url) ==
    CASE k = 1 -> FormatFired(url)
      [] k = 2 -> MatchesIP(url)
      [] k = 3 -> SearchIgnoreCase(url, UrlKeywords)
      [] k = 4 -> MatchesShortener(url)
      [] k = 5 -> HasAt(url)
      [] k = 6 -> HasSymbolRun(url)
      [] k = 7 -> SearchIgnoreCase(url, LookAlikes)

UrlPoints == <<5, 3, 2, 2, 2, 1, 3>>

UrlLabels(url) ==
    << IF urlparse(url).raised THEN "Malformed URL" ELSE "Invalid URL format",
       "Contains IP address", "Suspicious keywords", "Shortened URL",
       "Contains @ symbol", "Excessive symbols", "Possible phishing domain" >>

EmailFires(k, email) ==
    CASE k = 1 -> ~MatchesEmailPattern(email)
      [] k = 2 -> SearchIgnoreCase(email, EmailKeywords)
      [] k = 3 -> \E t \in SuspiciousTlds : EndsWith(email, t)

EmailPoints == <<5, 3, 2>>

EmailLabels == <<"Invalid email format", "Suspicious keywords", "Suspicious TLD">>

RECURSIVE SumOver(_, _)
SumOver(points, fired) ==
    IF fired = {} THEN 0
    ELSE LET k == CHOOSE x \in fired : TRUE
         IN  points[k] + SumOver(points, fired \ {k})

\* The labels of the fired rules, from rule k on, in rule order.
RECURSIVE LabelsFrom(_, _, _)
LabelsFrom(labels, fired, k) ==
    IF k > Len(labels) THEN <<>>
    ELSE (IF k \in fired THEN <<labels[k]>> ELSE <<>>)
         \o LabelsFrom(labels, fired, k + 1)

Reference(points, labels, fired) ==
    [score  |-> Min(10, SumOver(points, fired)),
     issues |-> IF SumOver(points, fired) = 0 THEN <<NoIssues>>
                ELSE LabelsFrom(labels, fired, 1)]

RefUrl(url) ==
    Reference(UrlPoints, UrlLabels(url), {k \in 1..7 : UrlFires(k, url)})

RefEmail(email) ==
    Reference(EmailPoints, EmailLabels, {k \in 1..3 : EmailFires(k, email)})

\* C6: check_url and check_email return what the reference scorer gives for
\* the set of fired rules: the capped sum of their points and their labels
\* in rule order, or exactly the sentinel label when the score is 0; the
\* sentinel never comes with another label or with a score above 0.
C6_MatchesReference ==
    /\ ret.fn = "check_url" =>
          ret.score = RefUrl(arg).score /\ ret.issues = RefUrl(arg).issues
    /\ ret.fn = "check_email" =>
          ret.score = RefEmail(arg).score /\ ret.issues = RefEmail(arg).issues
    /\ (ret.fn # "none" /\ InIssues(NoIssues)) =>
          ret.issues = <<NoIssues>> /\ ret.score = 0
    /\ (ret.fn # "none" /\ ret.score = 0) => ret.issues = <<NoIssues>>

\* check_url returned with the keyword rule and the shortener rule both
\* fired, the score below the cap.
C6_Witness ==
    /\ ret.fn = "check_url"
    /\ ret.issues = <<"Suspicious keywords", "Shortened URL">>
    /\ ret.score = 4

----------------------------------------------------------------------------
(* Properties of the application, checked under Spec.                      *)

\* The number of lines of the text that are not blank.
NonBlank(text) ==
    Cardinality({i \in 1..Len(text) : \E k \in 1..Len(text[i]) : text[i][k] # " "})

\* The last call was analyze_input on a text with an entry in it.
Analysed == last.op = "analyze" /\ NonBlank(last.text) > 0

NewRows == to_csv(DataFrame(results'))

\* C1 as stated: a run that could read the history file (or found none)
\* and wrote it leaves in it the rows it held before, unchanged and in
\* order, followed by the run's records in input-line order.
C1_AppendOnly ==
    [][(last'.op = "analyze" /\ NonBlank(last'.text) > 0
            /\ last'.read \in {"none", "ok"} /\ last'.write = "ok")
        => history_file'.rows = history_file.rows \o NewRows]_vars

\* C2 as stated: a run that raises leaves the table and the current
\* results as they were before the run started.
C2_Original ==
    [][(last'.op = "analyze" /\ err' # "none")
        => (results_table' = results_table /\ results' = results)]_vars

\* The suffix of the last n elements of a sequence.
LastN(seq, n) == SubSeq(seq, Len(seq) - n + 1, Len(seq))

\* The table rows of a sequence of records.
RowsOf(records) ==
    [i \in 1..Len(records) |->
        [set    |-> TRUE,
         Input  |-> records[i].Input,
         Issues |-> records[i].Issues,
         Score  |-> Str(records[i].Score),
         Status |-> records[i].Status]]

\* C2 amended: a run on a non-blank text replaces the table, the current
\* results and the dashboard counts by the run's, whether or not it then
\* raises; it raises only when the history write fails, and when it does
\* not raise the history file ends with the run's records.
C2_RenderedBeforeWrite ==
    Analysed =>
        /\ Len(results) = NonBlank(last.text)
        /\ results_table = RowsOf(results)
        /\ cards = Counted(results)
        /\ (err # "none") <=> (last.write = "failed")
        /\ err = "none" =>
              /\ history_file.state = "ok"
              /\ Len(history_file.rows) >= Len(results)
              /\ LastN(history_file.rows, Len(results))
                    = to_csv(DataFrame(results))

\* A run raised at the history write after the table already held rows of an
\* earlier call, and the table and the current results show the new run.
C2_Witness ==
    /\ Analysed
    /\ err = "OSError"
    /\ results # <<>>
    /\ results_table = RowsOf(results)
    /\ history_file.state = "ok"
    /\ LastN(history_file.rows, 1) # LastN(to_csv(DataFrame(results)), 1)

\* The rows of the records analyze_input builds for the given entries.
RefRows(entries) ==
    [i \in 1..Len(entries) |->
        [Input  |-> entries[i],
         Issues |-> JoinIssues(Route(entries[i]).issues),
         Score  |-> Str(Route(entries[i]).score),
         Status |-> Classify(Route(entries[i]).score)]]

\* C3: export_csv writes exactly the records of the latest non-empty
\* analysis run, in order, also while the table shows the history, and
\* writes nothing when no run has produced results.
C3_ExportsCurrentRun ==
    last.op = "export" =>
        /\ last.write = "ok" => (analysed # <<>> /\ last.out = RefRows(analysed))
        /\ analysed = <<>> => (last.write = "none" /\ last.out = <<>>)

\* export_csv wrote a file while the table showed the history of several
\* runs, not the current results.
C3_Witness ==
    /\ last.op = "export"
    /\ last.write = "ok"
    /\ Len(results_table) > Len(results)
    /\ Len(last.out) = Len(results)

\* C7: every record of a run has status SUSPICIOUS iff its score is at
\* least 5, POTENTIAL iff it is between 1 and 4, SAFE iff it is 0; each
\* entry is counted in exactly one bucket and the three dashboard counts sum
\* to the number of non-blank lines.
C7_Classified ==
    Analysed =>
        /\ \A i \in 1..Len(results) :
              /\ results[i].Score \in 0..10
              /\ results[i].Status = SUSPICIOUS <=> results[i].Score >= 5
              /\ results[i].Status = POTENTIAL
                    <=> (results[i].Score > 0 /\ results[i].Score < 5)
              /\ results[i].Status = SAFE <=> results[i].Score = 0
        /\ cards.suspicious
              = Cardinality({i \in 1..Len(results) : results[i].Score >= 5})
        /\ cards.safe
              = Cardinality({i \in 1..Len(results) : results[i].Score = 0})
        /\ cards.safe + cards.risk + cards.suspicious = NonBlank(last.text)

\* A run of two entries, one with score exactly 5 and one with a score
\* between 1 and 4.
C7_Witness ==
    /\ Analysed
    /\ \E i \in 1..Len(results) : results[i].Score = 5
    /\ \E i \in 1..Len(results) : results[i].Score \in 1..4
    /\ cards.risk = 1 /\ cards.suspicious = 1

\* C8 as stated: a run that finds the history file unreadable surfaces no
\* error and leaves in the file exactly its own records; a run that can
\* read the file keeps the rows the file held, followed by its own.
C8_ReadFailureDiscards ==
    [][(last'.op = "analyze" /\ NonBlank(last'.text) > 0
            /\ history_file.state # "absent" /\ last'.write = "ok")
        => /\ err' = "none"
           /\ history_file.state = "corrupt" =>
                 history_file' = CsvFile(NewRows)
           /\ history_file.state = "ok" =>
                 history_file' = CsvFile(history_file.rows \o NewRows)]_vars

\* The counts of the rows of the file by the status their score gives.
RefTotals(rows) ==
    [safe       |-> Cardinality({i \in 1..Len(rows) : ParseInt(rows[i].Score) = 0}),
     risk       |-> Cardinality({i \in 1..Len(rows) :
                        ParseInt(rows[i].Score) \in 1..4}),
     suspicious |-> Cardinality({i \in 1..Len(rows) :
                        ParseInt(rows[i].Score) >= 5})]

\* C9 as stated: show_history on a readable history file displays every
\* persisted record in file order, and the dashboard counts it shows are
\* the per-status totals of the records.
C9_HistoryRoundTrip ==
    (last.op = "history" /\ history_file.state = "ok") =>
        /\ err = "none"
        /\ results_table =
              [i \in 1..Len(history_file.rows) |->
                  Cells(history_file.rows[i].Input, history_file.rows[i].Issues,
                        history_file.rows[i].Score, history_file.rows[i].Status)]
        /\ cards = RefTotals(history_file.rows)

EmailOnlyLabels ==
    {"Invalid email format", "Suspicious keywords", "Suspicious TLD", NoIssues,
     ", "}

\* C10: no record of the current results and no row of the history file
\* carries the issue "Contains @ symbol", and every entry with an "@" is
\* scored by the email rules alone.
C10_AtGoesToEmail ==
    /\ \A i \in 1..Len(results) :
          /\ "Contains @ symbol" \notin Range(results[i].Issues)
          /\ HasAt(results[i].Input) =>
                /\ Range(results[i].Issues) \subseteq EmailOnlyLabels
                /\ results[i].Score = RefEmail(results[i].Input).score
    /\ \A i \in 1..Len(history_file.rows) :
          "Contains @ symbol" \notin Range(history_file.rows[i].Issues)

\* A run analysed an entry with an "@" and its record is in the history.
C10_Witness ==
    /\ Analysed
    /\ err = "none"
    /\ \E i \in 1..Len(results) : HasAt(results[i].Input)
    /\ \E i \in 1..Len(history_file.rows) : HasAt(history_file.rows[i].Input)

=============================================================================
